---- MODULE Spec2Model ----
(***************************************************************************)
(* Wave Function Collapse: the Topology engine (src/WFC/Topology.h) and    *)
(* the Cartesian builder (src/WFC/CartesianTopology.h).                    *)
(*                                                                         *)
(* Nodes live in a heap `mem` addressed by pointers, as in the source: a   *)
(* Topology owns a contiguous vector of nodes (data pointer + size) and    *)
(* every adjacency slot is a raw pointer into some vector, or nullptr.     *)
(***************************************************************************)
EXTENDS Integers, Sequences, FiniteSets, TLC

VARIABLES
    mem,    \* heap: node address -> [states, adjacent]
    topo,   \* live Topology objects: id -> [data, count, weights, compatible, dim, size]
    cur,    \* the Topology object the caller is driving
    pc,     \* "idle", or "collapse" while Topology::collapse is in its loop
    last,   \* the last operation that ran, its arguments and its outcome
    prev,   \* the outcome of the public call before the one `last` belongs to
    calls,  \* number of public calls made so far
    iters,  \* completed iterations of the running collapse loop
    sum0,   \* total candidate count when the running collapse was entered
    ctor    \* the constructor call that built topo[SRC], with its arguments

vars == <<mem, topo, cur, pc, last, prev, calls, iters, sum0, ctor>>

(***************************************************************************)
(* Bounds of the model.                                                    *)
(***************************************************************************)
MaxNodes == 2      \* nodes of a hand-built topology
MaxSlots == 1      \* adjacency slots per node of a hand-built topology
NumStates == 2     \* size of the state alphabet of a hand-built topology
MaxWeight == 2     \* largest weight in a weight map
MaxDraw == 3       \* random draws range over 0..MaxDraw
MaxCalls == 2
MaxGridCalls == 3      \* public calls made by the caller

States == 0 .. (NumStates - 1)
Draws == 0 .. MaxDraw

\* nullptr
NULL == 0

\* std::vector<Node>::data() of the node vector owned by Topology object t.
DataOf(t) == t * 1000

SRC == 1    \* the Topology the caller built
CPY == 2    \* its copy, once Topology(const Topology&) has run

RECURSIVE SeqSum(_)
SeqSum(s) == IF s = <<>> THEN 0 ELSE Head(s) + SeqSum(Tail(s))

InSeq(x, s) == \E k \in 1 .. Len(s) : s[k] = x

(***************************************************************************)
(* Topology: accessors.                                                    *)
(***************************************************************************)
\* &T.nodes[i]
NodeAt(T, i) == T.data + i

\* the nodes of T in storage order
NodeSeq(T) == [k \in 1 .. T.count |-> NodeAt(T, k - 1)]

NodeSet(T) == {NodeAt(T, i) : i \in 0 .. (T.count - 1)}

\* user-supplied binary predicates over two states
Rule(name, l, r) ==
    CASE name = "le" -> l <= r
      [] name = "lt" -> l < r
      [] name = "eq" -> l = r
      [] name = "neq" -> l # r
      [] OTHER -> TRUE

\* Direction search of the Cartesian predicates: the first i < 2*Dim with
\* a.adjacent[i] == &b && b.adjacent[i ^ 1] == &a, or -1 when the loop ends.
Xor1(i) == IF i % 2 = 0 THEN i + 1 ELSE i - 1

RECURSIVE FindDir(_, _, _, _, _)
FindDir(m, dim, a, b, i) ==
    IF i >= 2 * dim THEN -1
    ELSE IF m[a].adjacent[i + 1] = b /\ m[b].adjacent[Xor1(i) + 1] = a THEN i
    ELSE FindDir(m, dim, a, b, i + 1)

\* the per-axis-rule predicate with the two orientations exchanged
RulesCompatibleFlipped(m, T, a, sa, b, sb) ==
    LET i == FindDir(m, T.dim, a, b, 0) IN
    IF i = -1 THEN FALSE
    ELSE IF i % 2 = 1 THEN Rule(T.compatible.rules[(i \div 2) + 1], sb, sa)
    ELSE Rule(T.compatible.rules[(i \div 2) + 1], sa, sb)

\* the predicate installed by the per-axis-rule constructor
RulesCompatible(m, T, a, sa, b, sb) ==
    LET i == FindDir(m, T.dim, a, b, 0) IN
    IF i = -1 THEN FALSE
    ELSE IF i % 2 = 1 THEN Rule(T.compatible.rules[(i \div 2) + 1], sa, sb)
    ELSE Rule(T.compatible.rules[(i \div 2) + 1], sb, sa)

\* the predicate installed by the allowed-neighbour constructor
AdjacentCompatible(m, T, a, sa, b, sb) ==
    LET i == FindDir(m, T.dim, a, b, 0) IN
    IF i = -1 THEN FALSE
    ELSE LET availableA == T.compatible.adjacent[sa][i + 1]
             availableB == T.compatible.adjacent[sb][Xor1(i) + 1]
         IN  InSeq(sb, availableA) /\ InSeq(sa, availableB)

\* the edge-token predicate reading the same slot of both states
TokensCompatibleSameSlot(m, T, a, sa, b, sb) ==
    LET i == FindDir(m, T.dim, a, b, 0) IN
    IF i = -1 THEN FALSE
    ELSE LET availableA == T.compatible.tokens[sa][i + 1]
             availableB == T.compatible.tokens[sb][i + 1]
         IN  /\ \E k \in 1 .. Len(availableB) : InSeq(availableB[k], availableA)
             /\ \E k \in 1 .. Len(availableA) : InSeq(availableA[k], availableB)

\* the predicate installed by the edge-token constructor
TokensCompatible(m, T, a, sa, b, sb) ==
    LET i == FindDir(m, T.dim, a, b, 0) IN
    IF i = -1 THEN FALSE
    ELSE LET availableA == T.compatible.tokens[sa][i + 1]
             availableB == T.compatible.tokens[sb][Xor1(i) + 1]
         IN  /\ \E k \in 1 .. Len(availableB) : InSeq(availableB[k], availableA)
             /\ \E k \in 1 .. Len(availableA) : InSeq(availableA[k], availableB)

\* Topology::compatible, a std::function the builder or the user installs
compatible(m, T, a, sa, b, sb) ==
    CASE T.compatible.kind = "true" -> TRUE
      [] T.compatible.kind = "user" -> Rule(T.compatible.pred, sa, sb)
      [] T.compatible.kind = "rules" -> RulesCompatible(m, T, a, sa, b, sb)
      [] T.compatible.kind = "adjacent" -> AdjacentCompatible(m, T, a, sa, b, sb)
      [] T.compatible.kind = "tokens" -> TokensCompatible(m, T, a, sa, b, sb)
      [] OTHER -> FALSE

(***************************************************************************)
(* Topology: the engine.                                                   *)
(***************************************************************************)
\* an isPlaceable that is content with one neighbour that has a compatible
\* candidate
isPlaceableSomeNeighbour(m, T, node, state) ==
    \E k \in 1 .. Len(m[node].adjacent) :
        LET adjacent == m[node].adjacent[k] IN
        \/ adjacent = NULL
        \/ \E j \in 1 .. Len(m[adjacent].states) :
               compatible(m, T, node, state, adjacent, m[adjacent].states[j])

isPlaceable(m, T, node, state) ==
    \A k \in 1 .. Len(m[node].adjacent) :
        LET adjacent == m[node].adjacent[k] IN
        \/ adjacent = NULL
        \/ \E j \in 1 .. Len(m[adjacent].states) :
               compatible(m, T, node, state, adjacent, m[adjacent].states[j])

\* a reduceStates that also drops the states whose weight is 0
reduceStatesWeighted(m, T, a) ==
    LET keep(s) == /\ (s \in DOMAIN T.weights => T.weights[s] > 0)
                   /\ isPlaceable(m, T, a, s)
        newStates == SelectSeq(m[a].states, keep)
    IN  [mem |-> [m EXCEPT ![a].states = newStates],
         changed |-> Len(newStates) # Len(m[a].states),
         thrown |-> newStates = <<>>]

\* a reduceStates that stores the kept candidates in reverse order
reduceStatesReversed(m, T, a) ==
    LET keep(s) == isPlaceable(m, T, a, s)
        kept == SelectSeq(m[a].states, keep)
        newStates == [k \in 1 .. Len(kept) |-> kept[Len(kept) + 1 - k]]
    IN  [mem |-> [m EXCEPT ![a].states = newStates],
         changed |-> Len(newStates) # Len(m[a].states),
         thrown |-> newStates = <<>>]

\* a.states is assigned before the emptiness test throws
reduceStates(m, T, a) ==
    LET keep(s) == isPlaceable(m, T, a, s)
        newStates == SelectSeq(m[a].states, keep)
    IN  [mem |-> [m EXCEPT ![a].states = newStates],
         changed |-> Len(newStates) # Len(m[a].states),
         thrown |-> newStates = <<>>]

\* the for-loop without the test of the visited list
RECURSIVE propagateSlotsRevisit(_, _, _, _, _, _)
propagateSlotsRevisit(m, T, current, k, queue, visited) ==
    IF k > Len(m[current].adjacent)
    THEN [mem |-> m, queue |-> queue, visited |-> visited, thrown |-> FALSE]
    ELSE LET neighbour == m[current].adjacent[k] IN
         IF neighbour = NULL
         THEN propagateSlotsRevisit(m, T, current, k + 1, queue, visited)
         ELSE LET r == reduceStates(m, T, neighbour) IN
              IF r.thrown
              THEN [mem |-> r.mem, queue |-> queue, visited |-> visited, thrown |-> TRUE]
              ELSE IF r.changed
              THEN propagateSlotsRevisit(r.mem, T, current, k + 1,
                                         Append(queue, neighbour), Append(visited, neighbour))
              ELSE propagateSlotsRevisit(r.mem, T, current, k + 1, queue, visited)

\* the for-loop over current->adjacent, from slot k on
RECURSIVE propagateSlots(_, _, _, _, _, _)
propagateSlots(m, T, current, k, queue, visited) ==
    IF k > Len(m[current].adjacent)
    THEN [mem |-> m, queue |-> queue, visited |-> visited, thrown |-> FALSE]
    ELSE LET neighbour == m[current].adjacent[k] IN
         IF neighbour = NULL \/ InSeq(neighbour, visited)
         THEN propagateSlots(m, T, current, k + 1, queue, visited)
         ELSE LET r == reduceStates(m, T, neighbour) IN
              IF r.thrown
              THEN [mem |-> r.mem, queue |-> queue, visited |-> visited, thrown |-> TRUE]
              ELSE IF r.changed
              THEN propagateSlots(r.mem, T, current, k + 1,
                                  Append(queue, neighbour), Append(visited, neighbour))
              ELSE propagateSlots(r.mem, T, current, k + 1, queue, visited)

\* the while-loop over the queue
RECURSIVE propagateQueue(_, _, _, _)
propagateQueue(m, T, queue, visited) ==
    IF queue = <<>>
    THEN [mem |-> m, visited |-> visited, thrown |-> FALSE]
    ELSE LET r == propagateSlots(m, T, Head(queue), 1, Tail(queue), visited) IN
         IF r.thrown
         THEN [mem |-> r.mem, visited |-> r.visited, thrown |-> TRUE]
         ELSE propagateQueue(r.mem, T, r.queue, r.visited)

\* a propagate that returns without visiting any neighbour
propagateSeedOnly(m, T, node) == [mem |-> m, visited |-> <<node>>, thrown |-> FALSE]

propagate(m, T, node) == propagateQueue(m, T, <<node>>, <<node>>)

\* a collapseNode that propagates without forcing the state on the node
collapseNodeNoForce(m, T, node, state) ==
    IF ~InSeq(state, m[node].states)
    THEN [mem |-> m, err |-> "logic_error", visited |-> <<>>]
    ELSE LET r == propagate(m, T, node) IN
         [mem |-> r.mem, err |-> IF r.thrown THEN "runtime_error" ELSE "none",
          visited |-> r.visited]

\* a collapseNode without the membership test
collapseNodeNoCheck(m, T, node, state) ==
    LET r == propagate([m EXCEPT ![node].states = <<state>>], T, node) IN
    [mem |-> r.mem, err |-> IF r.thrown THEN "runtime_error" ELSE "none",
     visited |-> r.visited]

collapseNode(m, T, node, state) ==
    IF ~InSeq(state, m[node].states)
    THEN [mem |-> m, err |-> "logic_error", visited |-> <<>>]
    ELSE LET r == propagate([m EXCEPT ![node].states = <<state>>], T, node) IN
         [mem |-> r.mem, err |-> IF r.thrown THEN "runtime_error" ELSE "none",
          visited |-> r.visited]

isCorrect(m, T) ==
    \A a \in NodeSet(T) :
        /\ Len(m[a].states) = 1
        /\ \A k \in 1 .. Len(m[a].adjacent) :
               LET b == m[a].adjacent[k] IN
               \/ b = NULL
               \/ /\ Len(m[b].states) = 1
                  /\ compatible(m, T, a, m[a].states[1], b, m[b].states[1])

isCollapsed(m, T) == \A node \in NodeSet(T) : Len(m[node].states) = 1

\* a signed comparison, under which nothing is less than the sentinel -1
SizeLessSigned(x, y) == x < y

\* size_t arithmetic: minEntropy starts as size_t(-1) and is compared unsigned
SizeLess(x, y) == IF x < 0 THEN FALSE ELSE (y < 0 \/ x < y)

\* a scan that looks only at the nodes with 2 or more candidates
RECURSIVE minEntropyScanAtLeastTwo(_, _, _, _)
minEntropyScanAtLeastTwo(m, T, i, minEntropy) ==
    IF i >= T.count THEN minEntropy
    ELSE LET entropy == Len(m[NodeAt(T, i)].states) IN
         minEntropyScanAtLeastTwo(m, T, i + 1,
             IF SizeLess(entropy, minEntropy) /\ entropy >= 2 THEN entropy ELSE minEntropy)

RECURSIVE minEntropyScan(_, _, _, _)
minEntropyScan(m, T, i, minEntropy) ==
    IF i >= T.count THEN minEntropy
    ELSE LET entropy == Len(m[NodeAt(T, i)].states) IN
         minEntropyScan(m, T, i + 1,
             IF SizeLess(entropy, minEntropy) /\ entropy # 1 THEN entropy ELSE minEntropy)

minNodesOf(m, T) ==
    LET minEntropy == minEntropyScan(m, T, 0, -1)
        isMin(p) == Len(m[p].states) = minEntropy
    IN  SelectSeq(NodeSeq(T), isMin)

\* randGen() % minNodes.size(); an empty minNodes divides by zero
getMinEntropy(m, T, draw) ==
    LET minNodes == minNodesOf(m, T) IN
    IF minNodes = <<>> THEN [ub |-> TRUE, node |-> NULL]
    ELSE [ub |-> FALSE, node |-> minNodes[(draw % Len(minNodes)) + 1]]

weightOf(T, s) == IF s \in DOMAIN T.weights THEN T.weights[s] ELSE 1

\* std::discrete_distribution: index i with probability aWeights[i] / sum
RECURSIVE discreteIndex(_, _, _)
discreteIndex(aWeights, u, i) ==
    IF u < aWeights[i] THEN i ELSE discreteIndex(aWeights, u - aWeights[i], i + 1)

\* a sampling filter that tests the weight only
sampleableByWeight(m, T, a) ==
    LET ok(s) == weightOf(T, s) > 0
    IN  SelectSeq(m[a].states, ok)

\* the (state, weight) pairs getState keeps, in the order of a.states
sampleable(m, T, a) ==
    LET ok(s) == weightOf(T, s) > 0 /\ isPlaceable(m, T, a, s)
    IN  SelectSeq(m[a].states, ok)

\* a getState that falls back on the first candidate when none can be sampled
getStateFallback(m, T, a, draw) ==
    LET aStates == sampleable(m, T, a)
        aWeights == [k \in 1 .. Len(aStates) |-> weightOf(T, aStates[k])]
    IN  IF Len(aStates) = 0
        THEN IF m[a].states = <<>> THEN [thrown |-> TRUE, state |-> -1]
             ELSE [thrown |-> FALSE, state |-> m[a].states[1]]
        ELSE [thrown |-> FALSE,
              state |-> aStates[discreteIndex(aWeights, draw % SeqSum(aWeights), 1)]]

getState(m, T, a, draw) ==
    LET aStates == sampleable(m, T, a)
        aWeights == [k \in 1 .. Len(aStates) |-> weightOf(T, aStates[k])]
    IN  IF Len(aStates) = 0 THEN [thrown |-> TRUE, state |-> -1]
        ELSE [thrown |-> FALSE,
              state |-> aStates[discreteIndex(aWeights, draw % SeqSum(aWeights), 1)]]

\* the candidate count summed over the nodes of T
TotalCandidates(m, T) == SeqSum([k \in 1 .. T.count |-> Len(m[NodeAt(T, k - 1)].states)])

(***************************************************************************)
(* CartesianTopology: indexing and construction.  Coordinates and sizes    *)
(* are sequences indexed 1..Dim for the axes 0..Dim-1.                     *)
(***************************************************************************)
INT_MAX == 2147483647

\* conversion of a size_t value to int: the accumulators of std::inner_product
\* and std::reduce are int because their initial values are the literals 0, 1
IntOf(x) == IF x > INT_MAX THEN x - INT_MAX - INT_MAX - 2 ELSE x

RECURSIVE getIndexFrom(_, _, _, _, _)
getIndexFrom(coord, size, a, accum, acc) ==
    IF a > Len(coord) THEN acc
    ELSE getIndexFrom(coord, size, a + 1, accum * size[a], IntOf(acc + coord[a] * accum))

getIndex(coord, size) == getIndexFrom(coord, size, 1, 1, 0)

RECURSIVE getCoordFrom(_, _, _)
getCoordFrom(index, size, a) ==
    IF a > Len(size) THEN <<>>
    ELSE <<index % size[a]>> \o getCoordFrom(index \div size[a], size, a + 1)

getCoord(index, size) == getCoordFrom(index, size, 1)

(***************************************************************************)
(* size_t and int values of any magnitude, as little-endian sequences of   *)
(* bytes: SIZE_BYTES of them for a size_t, INT_BYTES for an int.           *)
(***************************************************************************)
SIZE_BYTES == 8
INT_BYTES == 4
BYTE == 256

RECURSIVE bytesOf(_, _)
bytesOf(n, w) == IF w = 0 THEN <<>> ELSE <<n % BYTE>> \o bytesOf(n \div BYTE, w - 1)

sizeT(n) == bytesOf(n, SIZE_BYTES)

\* w copies of the byte b
RECURSIVE fill(_, _)
fill(b, w) == IF w = 0 THEN <<>> ELSE <<b>> \o fill(b, w - 1)

\* the size_t with only bit k set
pow2(k) == fill(0, k \div 8) \o <<2 ^ (k % 8)>> \o fill(0, SIZE_BYTES - (k \div 8) - 1)

\* zero extension (or truncation) to w bytes
resize(x, w) == IF w <= Len(x) THEN SubSeq(x, 1, w) ELSE x \o fill(0, w - Len(x))

RECURSIVE addFrom(_, _, _, _)
addFrom(x, y, k, carry) ==
    IF k > Len(x) THEN <<>>
    ELSE LET s == x[k] + y[k] + carry
         IN  <<s % BYTE>> \o addFrom(x, y, k + 1, s \div BYTE)

\* x + y modulo BYTE^Len(x)
add(x, y) == addFrom(x, y, 1, 0)

RECURSIVE subFrom(_, _, _, _)
subFrom(x, y, k, carry) ==
    IF k > Len(x) THEN <<>>
    ELSE LET s == x[k] + (BYTE - 1 - y[k]) + carry
         IN  <<s % BYTE>> \o subFrom(x, y, k + 1, s \div BYTE)

\* x - y modulo BYTE^Len(x)
sub(x, y) == subFrom(x, y, 1, 1)

\* x * m modulo BYTE^Len(x), for one byte m
RECURSIVE scaleFrom(_, _, _, _)
scaleFrom(x, m, k, carry) ==
    IF k > Len(x) THEN <<>>
    ELSE LET s == x[k] * m + carry
         IN  <<s % BYTE>> \o scaleFrom(x, m, k + 1, s \div BYTE)

scale(x, m) == scaleFrom(x, m, 1, 0)

\* x * BYTE^n modulo BYTE^Len(x)
shl(x, n) == fill(0, n) \o SubSeq(x, 1, Len(x) - n)

RECURSIVE mulFrom(_, _, _)
mulFrom(x, y, k) ==
    IF k > Len(y) THEN fill(0, Len(x))
    ELSE add(shl(scale(x, y[k]), k - 1), mulFrom(x, y, k + 1))

\* x * y modulo BYTE^Len(x)
mul(x, y) == mulFrom(x, y, 1)

RECURSIVE lessFrom(_, _, _)
lessFrom(x, y, k) ==
    IF k = 0 THEN FALSE
    ELSE IF x[k] # y[k] THEN x[k] < y[k]
    ELSE lessFrom(x, y, k - 1)

\* x < y, unsigned
less(x, y) == lessFrom(x, y, Len(x))

\* unsigned x / d and x % d by long division, one byte of the quotient at a
\* time; the running remainder has one byte more than x
RECURSIVE divModFrom(_, _, _, _, _)
divModFrom(x, d, k, q, r) ==
    IF k = 0 THEN [quot |-> q, rem |-> resize(r, Len(x))]
    ELSE LET r2 == <<x[k]>> \o SubSeq(r, 1, Len(r) - 1)
             digit == CHOOSE m \in 0 .. (BYTE - 1) :
                          /\ ~less(r2, scale(d, m))
                          /\ m = BYTE - 1 \/ less(r2, scale(d, m + 1))
         IN  divModFrom(x, d, k - 1, [q EXCEPT ![k] = digit], sub(r2, scale(d, digit)))

divMod(x, d) ==
    divModFrom(x, resize(d, Len(x) + 1), Len(x), fill(0, Len(x)), fill(0, Len(x) + 1))

\* conversion of a size_t to int (the low INT_BYTES bytes, two's complement)
\* and of an int to size_t (sign extension)
toInt(x) == SubSeq(x, 1, INT_BYTES)

toSizeT(i) ==
    i \o fill(IF i[Len(i)] >= BYTE \div 2 THEN BYTE - 1 ELSE 0, SIZE_BYTES - Len(i))

\* GridTopology<Dim>::getIndex(coord, size): acc is the int accumulator of
\* std::inner_product, std::plus<size_t> adds to it as a size_t
RECURSIVE gridGetIndexFrom(_, _, _, _, _)
gridGetIndexFrom(coord, size, a, accum, acc) ==
    IF a > Len(coord) THEN toSizeT(acc)
    ELSE gridGetIndexFrom(coord, size, a + 1, mul(accum, size[a]),
                          toInt(add(toSizeT(acc), mul(coord[a], accum))))

gridGetIndex(coord, size) == gridGetIndexFrom(coord, size, 1, sizeT(1), bytesOf(0, INT_BYTES))

\* GridTopology<Dim>::getCoord(index, size)
RECURSIVE gridGetCoordFrom(_, _, _)
gridGetCoordFrom(index, size, a) ==
    IF a > Len(size) THEN <<>>
    ELSE LET dm == divMod(index, size[a])
         IN  <<dm.rem>> \o gridGetCoordFrom(dm.quot, size, a + 1)

gridGetCoord(index, size) == gridGetCoordFrom(index, size, 1)

RECURSIVE nodeCountFrom(_, _, _)
nodeCountFrom(size, a, acc) ==
    IF a > Len(size) THEN acc ELSE nodeCountFrom(size, a + 1, IntOf(acc * size[a]))

\* std::reduce(size.begin(), size.end(), 1, std::multiplies<size_t>())
nodeCount(size) == nodeCountFrom(size, 1, 1)

\* &this->getNode(coord) of the Topology object t
getNode(t, coord, size) == DataOf(t) + getIndex(coord, size)

\* links that wrap on every axis, whatever periods says
cartesianSlotWrap(t, size, periods, coords, i) ==
    LET a == (i \div 2) + 1
        coordsNegative == [coords EXCEPT ![a] = IF coords[a] # 0 THEN coords[a] - 1 ELSE size[a] - 1]
        coordsPositive == [coords EXCEPT ![a] = IF coords[a] # size[a] - 1 THEN coords[a] + 1 ELSE 0]
    IN  IF i % 2 = 0 THEN getNode(t, coordsNegative, size) ELSE getNode(t, coordsPositive, size)

\* links with the negative and the positive neighbour in each other's slot
cartesianSlotSwapped(t, size, periods, coords, i) ==
    LET a == (i \div 2) + 1
        coordsNegative == [coords EXCEPT ![a] = IF coords[a] # 0 THEN coords[a] - 1 ELSE size[a] - 1]
        coordsPositive == [coords EXCEPT ![a] = IF coords[a] # size[a] - 1 THEN coords[a] + 1 ELSE 0]
    IN  IF i % 2 = 1
        THEN IF coords[a] # 0 \/ periods[a] THEN getNode(t, coordsNegative, size) ELSE NULL
        ELSE IF coords[a] # size[a] - 1 \/ periods[a] THEN getNode(t, coordsPositive, size) ELSE NULL

\* adjacent[i] of the node at coords, for slot i = 2a (negative) or 2a+1 (positive)
cartesianSlot(t, size, periods, coords, i) ==
    LET a == (i \div 2) + 1
        coordsNegative == [coords EXCEPT ![a] = IF coords[a] # 0 THEN coords[a] - 1 ELSE size[a] - 1]
        coordsPositive == [coords EXCEPT ![a] = IF coords[a] # size[a] - 1 THEN coords[a] + 1 ELSE 0]
    IN  IF i % 2 = 0
        THEN IF coords[a] # 0 \/ periods[a] THEN getNode(t, coordsNegative, size) ELSE NULL
        ELSE IF coords[a] # size[a] - 1 \/ periods[a] THEN getNode(t, coordsPositive, size) ELSE NULL

\* the nodes the (size, states, periods, weights) constructor allocates and links
cartesianNodes(t, size, states, periods) ==
    [p \in {DataOf(t) + i : i \in 0 .. (nodeCount(size) - 1)} |->
        LET coords == getCoord(p - DataOf(t), size) IN
        [states |-> states,
         adjacent |-> [k \in 1 .. 2 * Len(size) |-> cartesianSlot(t, size, periods, coords, k - 1)]]]

\* const std::array<bool, Dim>& periods = {}
defaultPeriods(dim) == [a \in 1 .. dim |-> FALSE]

\* CartesianTopology(size, states, periods, weights)
CartesianTopology(t, size, states, periods, weights) ==
    [data |-> DataOf(t), count |-> nodeCount(size), weights |-> weights,
     compatible |-> [kind |-> "true"], dim |-> Len(size), size |-> size]

\* CartesianTopology(size, states, rules, periods, weights)
CartesianTopologyRules(t, size, states, rules, periods, weights) ==
    [CartesianTopology(t, size, states, periods, weights)
        EXCEPT !.compatible = [kind |-> "rules", rules |-> rules]]

\* __getKeys(map): the keys of a std::map, in increasing order
RECURSIVE getKeysOf(_)
getKeysOf(keys) ==
    IF keys = {} THEN <<>>
    ELSE LET first == CHOOSE x \in keys : \A y \in keys : x <= y
         IN  <<first>> \o getKeysOf(keys \ {first})

getKeys(map) == getKeysOf(DOMAIN map)

\* CartesianTopology(size, adjacent, periods, weights)
CartesianTopologyAdjacent(t, size, adjacent, periods, weights) ==
    [CartesianTopology(t, size, getKeys(adjacent), periods, weights)
        EXCEPT !.compatible = [kind |-> "adjacent", adjacent |-> adjacent]]

\* CartesianTopology(size, tokens, periods, weights)
CartesianTopologyTokens(t, size, tokens, periods, weights) ==
    [CartesianTopology(t, size, getKeys(tokens), periods, weights)
        EXCEPT !.compatible = [kind |-> "tokens", tokens |-> tokens]]

(***************************************************************************)
(* Topology(const Topology&): the copy constructor.                        *)
(***************************************************************************)
\* a copy that keeps the source's pointers
rebindKeep(adj, srcData, dstData) == adj

\* adj == nullptr ? nullptr : &this->nodes[adj - topology.nodes.data()]
rebind(adj, srcData, dstData) ==
    IF adj = NULL THEN NULL ELSE dstData + (adj - srcData)

\* this->nodes = topology.nodes, then every adjacency slot rebound
copyNodes(m, S, t) ==
    [p \in {DataOf(t) + i : i \in 0 .. (S.count - 1)} |->
        LET n == m[S.data + (p - DataOf(t))] IN
        [states |-> n.states,
         adjacent |-> [k \in 1 .. Len(n.adjacent) |-> rebind(n.adjacent[k], S.data, DataOf(t))]]]

copyTopology(S, t) == [S EXCEPT !.data = DataOf(t)]

(***************************************************************************)
(* Hand-built topologies: what a caller can assemble through the public    *)
(* members nodes, weights and compatible.                                  *)
(***************************************************************************)
Op(op, node, state, err, arg, ret) ==
    [op |-> op, node |-> node, state |-> state, err |-> err, arg |-> arg, ret |-> ret]

Injective(s) == \A i, j \in 1 .. Len(s) : s[i] = s[j] => i = j

\* candidate lists: sequences of distinct states
CandidateLists(alphabet) ==
    {s \in UNION {[1 .. k -> alphabet] : k \in 0 .. Cardinality(alphabet)} : Injective(s)}

\* adjacency lists over the node indices 0..n-1, with -1 for an absent slot
SlotLists(n) == UNION {[1 .. k -> (-1) .. (n - 1)] : k \in 0 .. MaxSlots}

\* weight maps: any set of states at weight 0 and the others without an entry
\* (weight 1), or every state with the entry MaxWeight
WeightMaps(alphabet) ==
    {[s \in D |-> 0] : D \in SUBSET alphabet} \cup {[s \in alphabet |-> MaxWeight]}

UserPredicates == {"eq", "neq"}

handNodes(t, n, adj, cand) ==
    [p \in {DataOf(t) + i : i \in 0 .. (n - 1)} |->
        [states |-> cand[p - DataOf(t)],
         adjacent |-> [k \in 1 .. Len(adj[p - DataOf(t)]) |->
                          IF adj[p - DataOf(t)][k] = -1 THEN NULL
                          ELSE DataOf(t) + adj[p - DataOf(t)][k]]]]

Init ==
    \E n \in 0 .. MaxNodes :
    \E adj \in [0 .. (n - 1) -> SlotLists(n)] :
    \E cand \in [0 .. (n - 1) -> CandidateLists(States)] :
    \E w \in WeightMaps(States) :
    \E c \in UserPredicates :
        /\ mem = handNodes(SRC, n, adj, cand)
        /\ topo = (SRC :> [data |-> DataOf(SRC), count |-> n, weights |-> w,
                           compatible |-> [kind |-> "user", pred |-> c],
                           dim |-> 0, size |-> <<>>])
        /\ cur = SRC
        /\ pc = "idle"
        /\ last = Op("construct", NULL, -1, "none", <<>>, <<>>)
        /\ prev = Op("none", NULL, -1, "none", <<>>, <<>>)
        /\ calls = 0
        /\ iters = 0
        /\ sum0 = 0
        /\ ctor = [kind |-> "hand", count |-> n, adjacent |-> adj, states |-> cand]

(***************************************************************************)
(* The public operations, on the Topology object the caller drives.        *)
(***************************************************************************)
\* the number of calls the caller makes: more on a grid, where the forced
\* cells come in pairs
CallBound == IF ctor.kind = "cartesian" THEN MaxGridCalls ELSE MaxCalls

\* topology.collapseNode(topology.nodes[i], s)
CollapseNodeCall(i, s) ==
    /\ pc = "idle"
    /\ calls < CallBound
    /\ i < topo[cur].count
    /\ \E r \in {collapseNode(mem, topo[cur], NodeAt(topo[cur], i), s)} :
           /\ mem' = r.mem
           /\ last' = Op("collapseNode", NodeAt(topo[cur], i), s, r.err, <<>>, r.visited)
    /\ calls' = calls + 1
    /\ prev' = last
    /\ UNCHANGED <<topo, cur, pc, iters, sum0, ctor>>

\* topology.collapse(seed): entry, std::mt19937 randGen(seed)
CollapseCall ==
    /\ pc = "idle"
    /\ calls < CallBound
    /\ pc' = "collapse"
    /\ calls' = calls + 1
    /\ iters' = 0
    /\ sum0' = TotalCandidates(mem, topo[cur])
    /\ last' = Op("collapse", NULL, -1, "running", <<>>, <<>>)
    /\ prev' = last
    /\ UNCHANGED <<mem, topo, cur, ctor>>

\* one iteration of while (!this->isCollapsed()), with the two draws it consumes
CollapseIter(d1, d2) ==
    /\ pc = "collapse"
    /\ ~isCollapsed(mem, topo[cur])
    /\ \E pick \in {getMinEntropy(mem, topo[cur], d1)} :
           IF pick.ub
           THEN /\ pc' = "idle"
                /\ last' = Op("collapse", NULL, -1, "undefined", <<>>, <<>>)
                /\ UNCHANGED <<mem, iters>>
           ELSE \E st \in {getState(mem, topo[cur], pick.node, d2)} :
                IF st.thrown
                THEN /\ pc' = "idle"
                     /\ last' = Op("collapse", pick.node, -1, "runtime_error", <<>>, <<>>)
                     /\ UNCHANGED <<mem, iters>>
                ELSE \E r \in {collapseNode(mem, topo[cur], pick.node, st.state)} :
                     /\ mem' = r.mem
                     /\ IF r.err = "none"
                        THEN /\ pc' = "collapse"
                             /\ iters' = iters + 1
                             /\ last' = Op("iteration", pick.node, st.state, "none", <<>>, r.visited)
                        ELSE /\ pc' = "idle"
                             /\ iters' = iters
                             /\ last' = Op("collapse", pick.node, st.state, r.err, <<>>, r.visited)
    /\ UNCHANGED <<topo, cur, prev, calls, sum0, ctor>>

\* the loop test succeeds: collapse returns normally
CollapseReturn ==
    /\ pc = "collapse"
    /\ isCollapsed(mem, topo[cur])
    /\ pc' = "idle"
    /\ last' = Op("collapse", NULL, -1, "none", <<>>, <<>>)
    /\ UNCHANGED <<mem, topo, cur, prev, calls, iters, sum0, ctor>>

\* Topology<State> copy(topology); the caller goes on with the copy
CopyCall ==
    /\ pc = "idle"
    /\ cur = SRC
    /\ calls = 0
    /\ CPY \notin DOMAIN topo
    /\ mem' = copyNodes(mem, topo[SRC], CPY) @@ mem
    /\ topo' = (CPY :> copyTopology(topo[SRC], CPY)) @@ topo
    /\ cur' = CPY
    /\ last' = Op("copy", NULL, -1, "none", <<>>, <<>>)
    /\ UNCHANGED <<pc, prev, calls, iters, sum0, ctor>>

Calls ==
    \/ \E i \in 0 .. (MaxNodes - 1), s \in States : CollapseNodeCall(i, s)
    \/ CollapseCall
    \/ \E d1, d2 \in Draws : CollapseIter(d1, d2)
    \/ CollapseReturn

\* the caller drives the topology it built
Next == Calls

Spec == Init /\ [][Next]_vars

\* the caller copies the topology it built and drives the copy
NextCopy ==
    \/ CopyCall
    \/ cur = CPY /\ Calls

SpecCopy == Init /\ [][NextCopy]_vars

(***************************************************************************)
(* Cartesian topologies: construction, and the coordinate accessors.       *)
(***************************************************************************)
MaxDim == 3        \* dimensions of a grid whose accessors are exercised
MaxSize == 3       \* size of such a grid along one axis

\* size vectors with every size >= 1
SizeVectors(dim, maxSize) == [1 .. dim -> 1 .. maxSize]

\* the coordinates c with c[a] < size[a] on every axis
Coords(size) ==
    {c \in [1 .. Len(size) -> 0 .. (SeqSum(size) - 1)] : \A a \in 1 .. Len(size) : c[a] < size[a]}

\* the periods argument: <<>> stands for a call that leaves it out
PeriodArgs(dim) == [1 .. dim -> BOOLEAN] \cup {<<>>}

periodsOf(arg, dim) == IF arg = <<>> THEN defaultPeriods(dim) ELSE arg

\* state after CartesianTopology<Dim, State>(size, states, periods) has run
Constructed(size, states, rules, periodsArg, T) ==
    /\ mem = cartesianNodes(SRC, size, states, periodsOf(periodsArg, Len(size)))
    /\ topo = (SRC :> T)
    /\ cur = SRC
    /\ pc = "idle"
    /\ last = Op("construct", NULL, -1, "none", <<>>, <<>>)
    /\ prev = Op("none", NULL, -1, "none", <<>>, <<>>)
    /\ calls = 0
    /\ iters = 0
    /\ sum0 = 0
    /\ ctor = [kind |-> "cartesian", size |-> size, states |-> states, rules |-> rules,
               periodsArg |-> periodsArg, periods |-> periodsOf(periodsArg, Len(size))]

\* state of a program that has constructed no topology
NoTopology ==
    /\ mem = <<>>
    /\ topo = <<>>
    /\ cur = NULL
    /\ pc = "idle"
    /\ last = Op("none", NULL, -1, "none", <<>>, <<>>)
    /\ prev = Op("none", NULL, -1, "none", <<>>, <<>>)
    /\ calls = 0
    /\ iters = 0
    /\ sum0 = 0
    /\ ctor = [kind |-> "none"]

InitCart ==
    \/ NoTopology
    \/ \E dim \in 1 .. MaxDim :
       \E size \in SizeVectors(dim, MaxSize) :
       \E periodsArg \in PeriodArgs(dim) :
           Constructed(size, <<0, 1>>, <<>>, periodsArg,
               CartesianTopology(SRC, size, <<0, 1>>, periodsOf(periodsArg, dim), <<>>))

\* arguments of the static functions: small values and values around 2^16
\* and 2^31
MaxStaticDim == 2
MaxStaticCalls == 1
WideValues ==
    {sizeT(0), sizeT(1), sizeT(2), sizeT(3), pow2(16), sizeT(INT_MAX), pow2(31),
     add(pow2(31), sizeT(1))}

RECURSIVE wideProduct(_)
wideProduct(size) == IF size = <<>> THEN sizeT(1) ELSE mul(Head(size), wideProduct(Tail(size)))

\* GridTopology<Dim>::getIndex(coord, size), a static function that reads no
\* topology: it is called in the program that has constructed none
StaticGetIndexCall(coord, size) ==
    /\ cur = NULL
    /\ calls < MaxStaticCalls
    /\ \A a \in 1 .. Len(size) : less(coord[a], size[a])
    /\ last' = Op("GridTopology::getIndex", NULL, -1, "none", <<coord, size>>,
                  gridGetIndex(coord, size))
    /\ calls' = calls + 1
    /\ UNCHANGED <<mem, topo, cur, pc, prev, iters, sum0, ctor>>

\* GridTopology<Dim>::getCoord(index, size)
StaticGetCoordCall(index, size) ==
    /\ cur = NULL
    /\ calls < MaxStaticCalls
    /\ \A a \in 1 .. Len(size) : less(sizeT(0), size[a])
    /\ less(index, wideProduct(size))
    /\ last' = Op("GridTopology::getCoord", NULL, -1, "none", <<index, size>>,
                  gridGetCoord(index, size))
    /\ calls' = calls + 1
    /\ UNCHANGED <<mem, topo, cur, pc, prev, iters, sum0, ctor>>

\* size and node count of the current topology, if there is one
CurSize == IF cur = NULL THEN <<>> ELSE topo[cur].size
CurCount == IF cur = NULL THEN 0 ELSE topo[cur].count

\* topology.getIndex(coord)
GetIndexCall(coord) ==
    /\ cur # NULL
    /\ coord \in Coords(topo[cur].size)
    /\ last' = Op("getIndex", NULL, -1, "none", coord, getIndex(coord, topo[cur].size))
    /\ UNCHANGED <<mem, topo, cur, pc, prev, calls, iters, sum0, ctor>>

\* topology.getCoord(index)
GetCoordCall(index) ==
    /\ cur # NULL
    /\ index < topo[cur].count
    /\ last' = Op("getCoord", NULL, -1, "none", index, getCoord(index, topo[cur].size))
    /\ UNCHANGED <<mem, topo, cur, pc, prev, calls, iters, sum0, ctor>>

\* topology.getNode(coord)
GetNodeCall(coord) ==
    /\ cur # NULL
    /\ coord \in Coords(topo[cur].size)
    /\ last' = Op("getNode", getNode(cur, coord, topo[cur].size), -1, "none", coord, <<>>)
    /\ UNCHANGED <<mem, topo, cur, pc, prev, calls, iters, sum0, ctor>>

NextCart ==
    \/ \E coord \in Coords(CurSize) : GetIndexCall(coord)
    \/ \E index \in 0 .. (CurCount - 1) : GetCoordCall(index)
    \/ \E coord \in Coords(CurSize) : GetNodeCall(coord)
    \/ \E dim \in 1 .. MaxStaticDim :
       \E coord, size \in [1 .. dim -> WideValues] : StaticGetIndexCall(coord, size)
    \/ \E dim \in 1 .. MaxStaticDim :
       \E index \in WideValues, size \in [1 .. dim -> WideValues] : StaticGetCoordCall(index, size)

SpecCart == InitCart /\ [][NextCart]_vars

(***************************************************************************)
(* Grids in per-axis-rule mode, driven by collapseNode and collapse.       *)
(***************************************************************************)
GridDim == 2
GridMaxSize == 2
GridStates == <<0, 1, 2>>
GridRuleNames == {"le", "lt"}

\* the periods argument left out, all false, or all true
GridPeriodArgs == {<<>>, [a \in 1 .. GridDim |-> FALSE], [a \in 1 .. GridDim |-> TRUE]}

\* CartesianTopology<2, int>(size, states, rules, periods)
InitGrid ==
    \E size \in SizeVectors(GridDim, GridMaxSize) :
    \E rules \in [1 .. GridDim -> GridRuleNames] :
    \E periodsArg \in GridPeriodArgs :
        Constructed(size, GridStates, rules, periodsArg,
            CartesianTopologyRules(SRC, size, GridStates, rules,
                                   periodsOf(periodsArg, GridDim), <<>>))

NextGrid ==
    \/ \E i \in 0 .. (CurCount - 1), s \in {GridStates[k] : k \in 1 .. Len(GridStates)} :
           CollapseNodeCall(i, s)
    \/ CollapseCall
    \/ \E d1, d2 \in Draws : CollapseIter(d1, d2)
    \/ CollapseReturn

SpecGrid == InitGrid /\ [][NextGrid]_vars

(***************************************************************************)
(* Grids built in each of the three modes that install a predicate, and    *)
(* direct calls of topology.compatible.                                    *)
(***************************************************************************)
BuildMaxDim == 2
BuildMaxNodes == 4
BuildStates == {0, 1}
BuildRuleNames == {"le", "lt", "eq", "neq"}

BuildSizes(dim) == {size \in SizeVectors(dim, MaxSize) : nodeCount(size) <= BuildMaxNodes}

\* the map argument of the allowed-neighbour and edge-token constructors,
\* from a state to its list per slot: on a line any list over {0, 1} in each
\* slot; on a plane one element per slot, and 0 in every slot of state 0
SlotMaps(dim) ==
    IF dim = 1
    THEN [BuildStates -> [1 .. 2 -> {<<>>, <<0>>, <<1>>, <<0, 1>>}]]
    ELSE {f \in [BuildStates -> [1 .. 2 * dim -> {<<0>>, <<1>>}]] :
              f[0] = [k \in 1 .. 2 * dim |-> <<0>>]}

InitBuild ==
    \E dim \in 1 .. BuildMaxDim :
    \E size \in BuildSizes(dim) :
    \E periodsArg \in PeriodArgs(dim) :
        \/ \E adjacent \in SlotMaps(dim) :
               Constructed(size, getKeys(adjacent), <<>>, periodsArg,
                   CartesianTopologyAdjacent(SRC, size, adjacent,
                                             periodsOf(periodsArg, dim), <<>>))
        \/ \E tokens \in SlotMaps(dim) :
               Constructed(size, getKeys(tokens), <<>>, periodsArg,
                   CartesianTopologyTokens(SRC, size, tokens,
                                           periodsOf(periodsArg, dim), <<>>))
        \/ \E rules \in [1 .. dim -> BuildRuleNames] :
               Constructed(size, <<0, 1>>, rules, periodsArg,
                   CartesianTopologyRules(SRC, size, <<0, 1>>, rules,
                                          periodsOf(periodsArg, dim), <<>>))

\* topology.compatible(topology.nodes[i], sa, topology.nodes[j], sb)
CompatibleCall(i, sa, j, sb) ==
    /\ cur # NULL
    /\ i < topo[cur].count
    /\ j < topo[cur].count
    /\ LET T == topo[cur] IN
       last' = Op("compatible", NodeAt(T, i), sa, "none", <<NodeAt(T, j), sb>>,
                  compatible(mem, T, NodeAt(T, i), sa, NodeAt(T, j), sb))
    /\ UNCHANGED <<mem, topo, cur, pc, prev, calls, iters, sum0, ctor>>

NextBuild ==
    \E i, j \in 0 .. (CurCount - 1) : \E sa, sb \in BuildStates : CompatibleCall(i, sa, j, sb)

SpecBuild == InitBuild /\ [][NextBuild]_vars

(***************************************************************************)
(* Hand-built rings: every node has two neighbours, so the graph is a      *)
(* cycle.                                                                  *)
(***************************************************************************)
RingNodes == 3
RingStates == {0, 1, 2}

\* candidate lists in increasing order
SortedLists(alphabet) ==
    {s \in CandidateLists(alphabet) : \A i, j \in 1 .. Len(s) : i < j => s[i] < s[j]}

\* node i lists its two ring neighbours, in either order
RingSlots(i) ==
    {<<(i + 1) % RingNodes, (i + RingNodes - 1) % RingNodes>>,
     <<(i + RingNodes - 1) % RingNodes, (i + 1) % RingNodes>>}

InitRing ==
    \E adj \in [0 .. (RingNodes - 1) -> UNION {RingSlots(i) : i \in 0 .. (RingNodes - 1)}] :
    \E cand \in [0 .. (RingNodes - 1) -> SortedLists(RingStates)] :
    \E c \in UserPredicates :
        /\ \A i \in 0 .. (RingNodes - 1) : adj[i] \in RingSlots(i)
        /\ mem = handNodes(SRC, RingNodes, adj, cand)
        /\ topo = (SRC :> [data |-> DataOf(SRC), count |-> RingNodes, weights |-> <<>>,
                           compatible |-> [kind |-> "user", pred |-> c],
                           dim |-> 0, size |-> <<>>])
        /\ cur = SRC
        /\ pc = "idle"
        /\ last = Op("construct", NULL, -1, "none", <<>>, <<>>)
        /\ prev = Op("none", NULL, -1, "none", <<>>, <<>>)
        /\ calls = 0
        /\ iters = 0
        /\ sum0 = 0
        /\ ctor = [kind |-> "hand", count |-> RingNodes, adjacent |-> adj, states |-> cand]

NextRing ==
    \/ \E i \in 0 .. (RingNodes - 1), s \in RingStates : CollapseNodeCall(i, s)
    \/ CollapseCall
    \/ \E d1, d2 \in Draws : CollapseIter(d1, d2)
    \/ CollapseReturn

SpecRing == InitRing /\ [][NextRing]_vars

(***************************************************************************)
(* Claims.                                                                 *)
(***************************************************************************)
T0 == topo[cur]

\* collapse has just returned normally
CollapseReturned == pc = "idle" /\ last.op = "collapse" /\ last.err = "none"

\* C1: whenever collapse returns normally, for any topology, every node has
\* exactly one candidate and isCorrect() is true.
C1_CollapseIsCorrect ==
    CollapseReturned => (isCollapsed(mem, T0) /\ isCorrect(mem, T0))

\* The two-cell topology of the forced-contradiction scenario: each cell lists
\* the other as its only neighbour, both start with the candidates {A, B} = {0, 1},
\* and compatible(a, sa, b, sb) = (sa = sb).
TwoCell ==
    /\ ctor.kind = "hand"
    /\ ctor.count = 2
    /\ ctor.adjacent = (0 :> <<1>> @@ 1 :> <<0>>)
    /\ ctor.states = (0 :> <<0, 1>> @@ 1 :> <<0, 1>>)
    /\ T0.compatible = [kind |-> "user", pred |-> "eq"]

\* collapseNode(cell 0, A) has run as the first call and collapseNode(cell 1, B)
\* as the second
TwoCellForced ==
    /\ TwoCell
    /\ calls = 2
    /\ prev.op = "collapseNode" /\ prev.node = NodeAt(T0, 0) /\ prev.state = 0
    /\ last.op = "collapseNode" /\ last.node = NodeAt(T0, 1) /\ last.state = 1

\* C2 as stated: the second call fails with no-valid-states (std::runtime_error).
C2_SecondCallNoValidStates == TwoCellForced => last.err = "runtime_error"

\* C2 as amended: the second call fails with invalid-forced-state
\* (std::logic_error): propagation from the first call has already removed B
\* from cell 1, so B is no longer one of its candidates.
C2_SecondCallInvalidForcedState ==
    TwoCellForced =>
        /\ prev.err = "none"
        /\ last.err = "logic_error"
        /\ mem[NodeAt(T0, 0)].states = <<0>>
        /\ mem[NodeAt(T0, 1)].states = <<0>>

C2_Witness == TwoCellForced /\ last.err = "logic_error"

\* a step that is a public collapseNode call
IsCollapseNodeStep == calls' = calls + 1 /\ last'.op = "collapseNode"

\* C3: collapseNode(n, s) with s not among n's candidates fails with
\* invalid-forced-state (std::logic_error) and leaves the candidates of every
\* node as they were.
C3_InvalidForcedState ==
    [][(IsCollapseNodeStep /\ ~InSeq(last'.state, mem[last'.node].states)) =>
           (last'.err = "logic_error" /\ mem' = mem)]_vars

C3_Witness ==
    /\ last.op = "collapseNode"
    /\ last.err = "logic_error"
    /\ ~InSeq(last.state, mem[last.node].states)
    /\ \E p \in NodeSet(T0) : Len(mem[p].states) >= 2

\* C4: every iteration of the collapse loop that completes strictly decreases
\* the candidate count summed over all nodes, so the number of completed
\* iterations is at most the count the loop started from, and the loop stops.
C4_IterationDecreases ==
    [][(pc = "collapse" /\ iters' = iters + 1) =>
           /\ TotalCandidates(mem', T0) < TotalCandidates(mem, T0)
           /\ iters' + TotalCandidates(mem', T0) <= sum0]_vars

C4_Witness == pc = "collapse" /\ iters >= 2

\* C5: the state sampleState (getState) returns for a node is one of the
\* node's candidates, has strictly positive weight and is placeable at the
\* moment of the call, whatever the draw.
C5_SampledState ==
    \A a \in NodeSet(T0) : \A d \in Draws :
        LET st == getState(mem, T0, a, d) IN
        ~st.thrown =>
            /\ InSeq(st.state, mem[a].states)
            /\ weightOf(T0, st.state) > 0
            /\ isPlaceable(mem, T0, a, st.state)

\* a sampled state was forced on a node that started with a weight-0 candidate
\* and with a candidate that was not placeable
C5_Witness ==
    /\ last.op = "iteration"
    /\ calls = 1 /\ iters = 1
    /\ weightOf(T0, last.state) > 0
    /\ \E k \in 1 .. Len(ctor.states[last.node - T0.data]) :
           weightOf(T0, ctor.states[last.node - T0.data][k]) = 0

\* the copy's adjacency mirrors the source's, slot by slot, inside the copy
CopyMirrorsSource ==
    CPY \in DOMAIN topo =>
        LET S == topo[SRC]
            C == topo[CPY]
        IN  /\ C.count = S.count
            /\ \A i \in 0 .. (S.count - 1) :
                   /\ Len(mem[NodeAt(C, i)].adjacent) = Len(mem[NodeAt(S, i)].adjacent)
                   /\ \A k \in 1 .. Len(mem[NodeAt(S, i)].adjacent) :
                          LET sp == mem[NodeAt(S, i)].adjacent[k]
                              cp == mem[NodeAt(C, i)].adjacent[k]
                          IN  /\ (cp = NULL) <=> (sp = NULL)
                              /\ \A j \in 0 .. (S.count - 1) :
                                     (cp = NodeAt(C, j)) <=> (sp = NodeAt(S, j))
                              /\ cp # NULL => cp \in NodeSet(C)

\* no step taken once the copy exists changes a node of the source
SourceUntouched ==
    CPY \in DOMAIN topo => \A p \in NodeSet(topo[SRC]) : mem'[p] = mem[p]

\* C6: a copy is self-contained: each of its adjacency slots is absent iff the
\* source's is and otherwise refers to the copy's node of the same index, and
\* no collapseNode or collapse call on the copy changes a candidate set of the
\* source.
C6_CopySelfContained == [](CopyMirrorsSource) /\ [][SourceUntouched]_vars

\* a call on the copy has changed the copy, in a topology with a present slot
C6_Witness ==
    /\ CPY \in DOMAIN topo
    /\ cur = CPY
    /\ last.op \in {"collapseNode", "collapse"}
    /\ \E i \in 0 .. (topo[SRC].count - 1) :
           /\ mem[NodeAt(topo[CPY], i)].states # mem[NodeAt(topo[SRC], i)].states
           /\ \E k \in 1 .. Len(mem[NodeAt(topo[SRC], i)].adjacent) :
                  mem[NodeAt(topo[SRC], i)].adjacent[k] # NULL

\* the product of the sizes, and the column-major sum of a coordinate
RECURSIVE Product(_)
Product(size) == IF size = <<>> THEN 1 ELSE Head(size) * Product(Tail(size))

RECURSIVE ColumnMajor(_, _)
ColumnMajor(c, size) ==
    IF c = <<>> THEN 0
    ELSE c[Len(c)] * Product(SubSeq(size, 1, Len(c) - 1))
         + ColumnMajor(SubSeq(c, 1, Len(c) - 1), size)

\* the column-major sum of a coordinate in size_t arithmetic
RECURSIVE ColumnMajor64(_, _)
ColumnMajor64(c, size) ==
    IF c = <<>> THEN sizeT(0)
    ELSE add(mul(c[Len(c)], wideProduct(SubSeq(size, 1, Len(c) - 1))),
             ColumnMajor64(SubSeq(c, 1, Len(c) - 1), size))

\* the member functions on a constructed grid
C8_Members ==
    ctor.kind = "cartesian" =>
        LET size == topo[cur].size IN
        /\ \A c \in Coords(size) :
               /\ getCoord(getIndex(c, size), size) = c
               /\ getIndex(c, size) = ColumnMajor(c, size)
        /\ \A i \in 0 .. (Product(size) - 1) : getIndex(getCoord(i, size), size) = i

\* the static functions of GridTopology, on the call just made
C8_Statics ==
    /\ last.op = "GridTopology::getIndex" =>
           /\ last.ret = ColumnMajor64(last.arg[1], last.arg[2])
           /\ gridGetCoord(last.ret, last.arg[2]) = last.arg[1]
    /\ last.op = "GridTopology::getCoord" =>
           gridGetIndex(last.ret, last.arg[2]) = last.arg[1]

\* C8: for every size vector with all sizes >= 1, getCoord(getIndex(c)) = c for
\* every coordinate c inside the grid, getIndex(getCoord(i)) = i for every index
\* i below the product of the sizes, and getIndex(c) is the column-major sum of
\* c[a] times the product of the sizes of the axes before a; for the member
\* functions of CartesianTopology and the static functions of GridTopology.
C8_IndexRoundTrip == C8_Members /\ C8_Statics

\* C8, restricted to what holds: the same, for every index below 2^31
C8_BelowIntMax ==
    /\ C8_Members
    /\ (/\ last.op = "GridTopology::getIndex"
        /\ less(ColumnMajor64(last.arg[1], last.arg[2]), pow2(31))) =>
           /\ last.ret = ColumnMajor64(last.arg[1], last.arg[2])
           /\ gridGetCoord(last.ret, last.arg[2]) = last.arg[1]
    /\ (/\ last.op = "GridTopology::getCoord"
        /\ less(last.arg[1], pow2(31))) =>
           gridGetIndex(last.ret, last.arg[2]) = last.arg[1]

AllPeriodic == \A a \in 1 .. Len(ctor.periods) : ctor.periods[a]
NonePeriodic == \A a \in 1 .. Len(ctor.periods) : ~ctor.periods[a]

\* C9: with every axis periodic every node has all 2*Dim slots present; with
\* no axis periodic (also when periods is left out) slot 2a is absent exactly
\* when the coordinate on axis a is 0, and slot 2a+1 exactly when it is sz[a]-1.
C9_BoundarySlots ==
    ctor.kind = "cartesian" =>
        LET T == topo[SRC]
            dim == Len(T.size)
        IN  /\ ctor.periodsArg = <<>> => NonePeriodic
            /\ \A i \in 0 .. (Product(T.size) - 1) :
                   LET c == getCoord(i, T.size)
                       adjacent == mem[NodeAt(T, i)].adjacent
                   IN  /\ Len(adjacent) = 2 * dim
                       /\ AllPeriodic => \A k \in 1 .. 2 * dim : adjacent[k] # NULL
                       /\ NonePeriodic =>
                              \A a \in 1 .. dim :
                                  /\ (adjacent[2 * (a - 1) + 1] = NULL) <=> (c[a] = 0)
                                  /\ (adjacent[2 * (a - 1) + 2] = NULL) <=> (c[a] = T.size[a] - 1)

\* a grid of two or more axes built without the periods argument, with an
\* interior node and nodes on the lower and on the upper edge of axis 0
C9_Witness ==
    /\ ctor.kind = "cartesian"
    /\ ctor.periodsArg = <<>>
    /\ Len(ctor.size) >= 2
    /\ \E p \in NodeSet(topo[SRC]) : \A k \in 1 .. Len(mem[p].adjacent) : mem[p].adjacent[k] # NULL
    /\ \E p \in NodeSet(topo[SRC]) : mem[p].adjacent[1] = NULL /\ mem[p].adjacent[2] # NULL
    /\ \E p \in NodeSet(topo[SRC]) : mem[p].adjacent[1] # NULL /\ mem[p].adjacent[2] = NULL

\* the only candidate of the cell at coordinate c
CellState(c) == mem[getNode(cur, c, T0.size)].states[1]

AllRules(name) == \A a \in 1 .. Len(ctor.rules) : ctor.rules[a] = name

\* C10: on a non-periodic grid built in per-axis-rule mode with
\* rule[a](l, r) = (l <= r) on every axis, whenever collapse returns normally,
\* whatever collapseNode calls came before it, every cell holds one state and
\* the state at c is <= the state at c with c[a] increased by 1, for every
\* cell c and axis a with c[a] + 1 < sz[a].
C10_GridOrdered ==
    (/\ ctor.kind = "cartesian"
     /\ T0.compatible.kind = "rules"
     /\ AllRules("le")
     /\ NonePeriodic
     /\ CollapseReturned) =>
        /\ isCollapsed(mem, T0)
        /\ \A c \in Coords(T0.size) : \A a \in 1 .. Len(T0.size) :
               c[a] + 1 < T0.size[a] =>
                   CellState(c) <= CellState([c EXCEPT ![a] = c[a] + 1])

\* collapse has returned normally on such a grid of 2 x 2 cells, after a
\* successful collapseNode call and at least one iteration, and two cells
\* hold different states
C10_Witness ==
    /\ ctor.kind = "cartesian"
    /\ T0.compatible.kind = "rules"
    /\ AllRules("le")
    /\ NonePeriodic
    /\ T0.size = <<2, 2>>
    /\ CollapseReturned
    /\ prev.op = "collapseNode"
    /\ prev.err = "none"
    /\ iters >= 1
    /\ CellState(<<0, 0>>) < CellState(<<1, 1>>)


\* a step in which collapseNode ran on last'.node with last'.state: a public
\* call, or the call at the end of an iteration of collapse
RanCollapseNode ==
    \/ IsCollapseNodeStep
    \/ /\ pc = "collapse"
       /\ last'.state # -1
       /\ iters' = iters + 1 \/ pc' = "idle"

\* C11: weights affect sampling only: the candidate sets a collapseNode(n, s)
\* call leaves are the ones it leaves under every other weight map, so no
\* state is removed from a candidate set because its weight is 0.
C11_WeightsSamplingOnly ==
    [][RanCollapseNode =>
           \A w \in WeightMaps(States) :
               mem' = collapseNode(mem, [T0 EXCEPT !.weights = w],
                                   last'.node, last'.state).mem]_vars

\* collapseNode returned normally, and propagation reduced another node to a
\* single candidate whose weight is 0
C11_Witness ==
    /\ last.op = "collapseNode"
    /\ last.err = "none"
    /\ \E p \in NodeSet(T0) :
           /\ p # last.node
           /\ InSeq(p, last.ret)
           /\ Len(mem[p].states) = 1
           /\ weightOf(T0, mem[p].states[1]) = 0


\* an iteration of collapse that picked last'.node
PickedStep == pc = "collapse" /\ ~isCollapsed(mem, T0) /\ last'.node # NULL

\* C12: when the node picked by an iteration of collapse has no candidate that
\* has strictly positive weight and is placeable, collapse fails at that
\* iteration with no-valid-states (std::runtime_error) and no state is forced:
\* every candidate set stays as it was.
C12_NothingToSample ==
    [][(PickedStep /\ sampleable(mem, T0, last'.node) = <<>>) =>
           /\ last'.op = "collapse"
           /\ last'.err = "runtime_error"
           /\ last'.state = -1
           /\ pc' = "idle"
           /\ iters' = iters
           /\ mem' = mem]_vars

\* collapse failed on a picked node that keeps two or more candidates, all of
\* weight 0
C12_Witness ==
    /\ last.op = "collapse"
    /\ last.err = "runtime_error"
    /\ last.state = -1
    /\ last.node # NULL
    /\ Len(mem[last.node].states) >= 2
    /\ \A k \in 1 .. Len(mem[last.node].states) : weightOf(T0, mem[last.node].states[k]) = 0


\* C13: within one propagate call every node is enqueued at most once: the
\* seed at the start, any other node when a reduceStates call strictly shrinks
\* its candidates; so the enqueued nodes are distinct and at most as many as
\* the nodes of the topology, cycles and self-loops included.  last'.ret lists
\* the enqueued nodes in order.
C13_EnqueuedOnce ==
    [][(RanCollapseNode /\ last'.err # "logic_error") =>
           LET enqueued == last'.ret IN
           /\ Len(enqueued) >= 1
           /\ enqueued[1] = last'.node
           /\ Injective(enqueued)
           /\ Len(enqueued) <= T0.count
           /\ \A k \in 2 .. Len(enqueued) :
                  /\ enqueued[k] \in NodeSet(T0)
                  /\ Len(mem'[enqueued[k]].states) < Len(mem[enqueued[k]].states)]_vars

\* a propagate call on a grid of 2 x 2 cells (a cycle) has enqueued every cell
C13_Witness ==
    /\ ctor.kind = "cartesian"
    /\ last.op \in {"collapseNode", "iteration"}
    /\ last.err = "none"
    /\ T0.count = 4
    /\ Len(last.ret) = 4


\* the candidates of node n that every present neighbour of n supports with
\* at least one of its own candidates, in the order they have in n.states
Supported(n) ==
    LET ok(s) == \A k \in 1 .. Len(mem[n].adjacent) :
                     LET nb == mem[n].adjacent[k] IN
                     nb # NULL =>
                         \E j \in 1 .. Len(mem[nb].states) :
                             compatible(mem, T0, n, s, nb, mem[nb].states[j])
    IN  SelectSeq(mem[n].states, ok)

SizesOf(T) == {Len(mem[p].states) : p \in NodeSet(T)}
Least(S) == CHOOSE x \in S : \A y \in S : x <= y

\* C15 as stated: when some node has 2 or more candidates, getMinEntropy
\* returns a node whose size is the minimum over the nodes with 2 or more
\* candidates, never a node with fewer than 2, and every node of that size
\* can be returned.
C15_MinOverAtLeastTwo ==
    LET big == {k \in SizesOf(T0) : k >= 2} IN
    big # {} =>
        /\ \A d \in Draws :
               LET r == getMinEntropy(mem, T0, d) IN
               ~r.ub /\ Len(mem[r.node].states) = Least(big)
        /\ \A p \in NodeSet(T0) :
               Len(mem[p].states) = Least(big) =>
                   \E d \in Draws : getMinEntropy(mem, T0, d).node = p

\* C15 as amended: the minimum is taken over the nodes whose size is not 1, so
\* a node without candidates is returned before any node with 2 or more.
C15_MinOverNotOne ==
    LET open == {k \in SizesOf(T0) : k # 1} IN
    open # {} =>
        /\ \A d \in Draws :
               LET r == getMinEntropy(mem, T0, d) IN
               ~r.ub /\ Len(mem[r.node].states) = Least(open)
        /\ \A p \in NodeSet(T0) :
               Len(mem[p].states) = Least(open) =>
                   \E d \in Draws : getMinEntropy(mem, T0, d).node = p

\* collapse picked a node without candidates while another node had 2 or more
C15_Witness ==
    /\ last.op = "collapse"
    /\ last.err = "runtime_error"
    /\ last.node # NULL
    /\ mem[last.node].states = <<>>
    /\ \E p \in NodeSet(T0) : Len(mem[p].states) >= 2


\* C16: collapse calls getMinEntropy only on a topology that is not
\* collapsed, and then the list of minimum-size nodes is not empty, so the
\* draw modulo its size is defined and collapse never indexes an empty list;
\* on the topology without nodes collapse returns without picking.
C16_MinNodesNonEmpty ==
    /\ last.err # "undefined"
    /\ (pc = "collapse" /\ ~isCollapsed(mem, T0)) =>
           /\ minNodesOf(mem, T0) # <<>>
           /\ \A d \in Draws : ~getMinEntropy(mem, T0, d).ub
    /\ (pc = "collapse" /\ T0.count = 0) => isCollapsed(mem, T0)

\* collapse has picked a node in a topology where no node had 2 or more
\* candidates: the picked node has none
C16_Witness ==
    /\ last.op = "collapse"
    /\ last.err = "runtime_error"
    /\ last.node # NULL
    /\ mem[last.node].states = <<>>
    /\ T0.count = 2
    /\ \A p \in NodeSet(T0) : Len(mem[p].states) <= 1


\* s is t with some of its elements left out
RECURSIVE IsSubsequence(_, _)
IsSubsequence(s, t) ==
    IF s = <<>> THEN TRUE
    ELSE IF t = <<>> THEN FALSE
    ELSE IF Head(s) = Head(t) THEN IsSubsequence(Tail(s), Tail(t))
    ELSE IsSubsequence(s, Tail(t))

\* C17: candidate sets only shrink: in every step of every sequence of
\* collapseNode and collapse calls, successful or failing, the candidate
\* sequence of each node after the step is a subsequence of the one before;
\* no state is added or reordered.
C17_CandidatesOnlyShrink ==
    [][\A p \in DOMAIN mem : IsSubsequence(mem'[p].states, mem[p].states)]_vars

\* a second call has failed with no-valid-states after emptying a node that
\* had 2 candidates, while another node holds a single candidate
C17_Witness ==
    /\ calls = 2
    /\ last.err = "runtime_error"
    /\ \E p \in NodeSet(T0) :
           mem[p].states = <<>> /\ Len(ctor.states[p - T0.data]) = 2
    /\ \E p \in NodeSet(T0) : Len(mem[p].states) = 1


\* the node of the topology T at coordinate c
NodeAtCoord(T, c) == T.data + ColumnMajor(c, T.size)

\* c moved by delta on axis a, modulo the size of that axis
Moved(c, a, delta, size) == [c EXCEPT ![a] = (c[a] + delta + size[a]) % size[a]]

DirsBetween(a, b) ==
    {i \in 0 .. (2 * T0.dim - 1) :
         mem[a].adjacent[i + 1] = b /\ mem[b].adjacent[Xor1(i) + 1] = a}

FirstDir(a, b) == CHOOSE i \in DirsBetween(a, b) : \A k \in DirsBetween(a, b) : i <= k

\* the elements of a sequence
Elements(s) == {s[k] : k \in 1 .. Len(s)}

\* C19: in edge-token mode compatible(a, sa, b, sb) is true iff a direction i
\* with a.adjacent[i] = b and b.adjacent[i XOR 1] = a exists and, for the
\* first such i, tokens[sa][i] and tokens[sb][i XOR 1] have a common element;
\* each of the two existential checks alone gives that result, also for empty
\* token sequences.
C19_TokensIntersect ==
    (ctor.kind = "cartesian" /\ T0.compatible.kind = "tokens") =>
        \A a, b \in NodeSet(T0) : \A sa, sb \in DOMAIN T0.compatible.tokens :
            LET result == compatible(mem, T0, a, sa, b, sb) IN
            IF DirsBetween(a, b) = {} THEN result = FALSE
            ELSE LET i == FirstDir(a, b)
                     availableA == T0.compatible.tokens[sa][i + 1]
                     availableB == T0.compatible.tokens[sb][Xor1(i) + 1]
                 IN  /\ result <=> (Elements(availableA) \cap Elements(availableB) # {})
                     /\ (\E k \in 1 .. Len(availableB) : InSeq(availableB[k], availableA))
                            <=> (\E k \in 1 .. Len(availableA) : InSeq(availableA[k], availableB))

\* compatible was called in edge-token mode on two different neighbouring
\* nodes and returned true on token lists of which one has two tokens
C19_Witness ==
    /\ ctor.kind = "cartesian"
    /\ T0.compatible.kind = "tokens"
    /\ last.op = "compatible"
    /\ last.ret = TRUE
    /\ last.node # last.arg[1]
    /\ DirsBetween(last.node, last.arg[1]) # {}
    /\ LET i == FirstDir(last.node, last.arg[1]) IN
       /\ Len(T0.compatible.tokens[last.state][i + 1]) = 2
       /\ Len(T0.compatible.tokens[last.arg[2]][Xor1(i) + 1]) = 1


BuilderInstalled ==
    ctor.kind = "cartesian" /\ T0.compatible.kind \in {"adjacent", "rules", "tokens"}

SymmetricOnGrid ==
    \A a, b \in NodeSet(T0) : \A sa, sb \in BuildStates :
        compatible(mem, T0, a, sa, b, sb) = compatible(mem, T0, b, sb, a, sa)

\* C20: the predicates installed by the allowed-neighbour, per-axis-rule and
\* edge-token constructors are symmetric for every grid size and periodicity
\* vector, periodic axes of size 2 or 1 included:
\* compatible(a, sa, b, sb) = compatible(b, sb, a, sa) for all nodes and states.
C20_BuildersSymmetric == BuilderInstalled => SymmetricOnGrid

\* C20, restricted to what holds: the same on the grids whose periodic axes
\* all have size 3 or more
C20_SymmetricWithoutShortPeriods ==
    (/\ BuilderInstalled
     /\ \A a \in 1 .. Len(ctor.size) : ctor.periods[a] => ctor.size[a] >= 3) =>
        SymmetricOnGrid


\* every candidate of every node of T0 other than n is placeable in memory m
PlaceableExcept(m, n) ==
    \A p \in NodeSet(T0) :
        p # n => \A k \in 1 .. Len(m[p].states) : isPlaceable(m, T0, p, m[p].states[k])

\* a is a neighbour of each of its neighbours, and compatible gives the same
\* answer in both orders on the candidates of every two nodes
SymmetricTopology ==
    /\ \A a \in NodeSet(T0) : \A k \in 1 .. Len(mem[a].adjacent) :
           LET b == mem[a].adjacent[k] IN
           b # NULL => InSeq(a, mem[b].adjacent)
    /\ \A a, b \in NodeSet(T0) :
           \A i \in 1 .. Len(mem[a].states), j \in 1 .. Len(mem[b].states) :
               compatible(mem, T0, a, mem[a].states[i], b, mem[b].states[j])
                   = compatible(mem, T0, b, mem[b].states[j], a, mem[a].states[i])

\* C21: propagation reaches a fixed point: on a topology with symmetric
\* adjacency and symmetric compatible in which every candidate of every node
\* is placeable, after collapseNode(n, s) returns normally every remaining
\* candidate of every node other than n is placeable, cycles included.
C21_PropagateFixedPoint ==
    [][(/\ IsCollapseNodeStep
        /\ last'.err = "none"
        /\ SymmetricTopology
        /\ PlaceableExcept(mem, NULL)) =>
           PlaceableExcept(mem', last'.node)]_vars


\* C21, restricted to what holds: under the same conditions every remaining
\* candidate of every node that propagate never enqueued is placeable; the
\* nodes it enqueued are not reduced again.
C21_NotEnqueuedPlaceable ==
    [][(/\ IsCollapseNodeStep
        /\ last'.err = "none"
        /\ SymmetricTopology
        /\ PlaceableExcept(mem, NULL)) =>
           \A p \in NodeSet(T0) :
               ~InSeq(p, last'.ret) =>
                   \A k \in 1 .. Len(mem'[p].states) :
                       isPlaceable(mem', T0, p, mem'[p].states[k])]_vars

====
